---- MODULE Spec2Model ----
(***************************************************************************)
(* Model of the markdown todo editor of mcp-tdo (src/src/mcp_tdo/server.py):*)
(* TdoServer.mark_todo_done and TdoServer.add_todo acting on one note file, *)
(* and the readers get_todo_contents and get_pending_todos, which ask the    *)
(* note tool for file paths and read the notes it names.                    *)
(* A text is a sequence of one-character strings; a document's lines are    *)
(* what str.splitlines() yields, and what is written is "\n".join(lines).   *)
(* Indices kept by the code (todo_section_index, last_todo_index,           *)
(* insertion_index) stay 0-based as in the source; -1 means "not set".      *)
(***************************************************************************)
EXTENDS Integers, Sequences, FiniteSets, TLC

VARIABLES
    file,             \* content of the note file on disk
    op,               \* the handler that ran last: "none", "mark_todo_done", "add_todo"
    todo_text,        \* the todo_text argument of that call
    before,           \* content of the file when that call started
    outcome,          \* "none", "TodoNote" (returned) or "McpError" (raised)
    error_code,       \* the ErrorCodes value of the McpError, 0 when none was raised
    returned,         \* content of the returned TodoNote (<<>> when none)
    writes,           \* number of open(file_path, "w") attempts of that call
    write_error,      \* TRUE when such an attempt raised an exception
    insertion_index,  \* add_todo's insertion_index (0-based), -1 when not computed
    previous,         \* op, todo_text, before, outcome, error_code, failure and
                      \* insertion_index of the call before
    calls_left,       \* number of requests the client still sends
    failure,          \* the raise statement that ended the call, "none" when it returned
    other,            \* content of a second note file, which no request edits
    listing,          \* file_paths: the lines of the note tool's last answer
    todos,            \* PendingTodos.todos of the last get_pending_todos that returned
    original,         \* content of the note file before the first request
    edits,            \* the two overlapping edits: position, arguments, content read
    schedule          \* the reads and writes of the overlapping edits, in order

vars ==
    <<file, op, todo_text, before, outcome, error_code, returned, writes, write_error,
      insertion_index, previous, calls_left, failure, other, listing, todos, original,
      edits, schedule>>

----------------------------------------------------------------------------
(* Bounds of the model *)

MaxLines == 4      \* lines of a document, one request
MaxSeqLines == 2   \* lines of a document, several requests in a row
MaxCalls == 2      \* requests in a row
MaxPieces == 5     \* pieces of an item text, formatting
MaxNoteLines == 2  \* lines of a note, requests that read notes
MaxStdout == 4     \* characters of the note tool's answer

----------------------------------------------------------------------------
(* ErrorCodes *)

COMMAND_FAILED == 1001
COMMAND_ERROR == 1002
FILE_READ_ERROR == 1003
NOT_FOUND == 1004

----------------------------------------------------------------------------
(* Python string primitives used by the handlers *)

NL == "\n"

\* characters str.strip() removes
Whitespace == {" ", "\t", "\n", "\r", "\f"}

\* characters str.splitlines() breaks a line at ("\r\n" counts once)
LineBreaks == {"\n", "\r", "\f"}

RECURSIVE LStrip(_)
LStrip(s) ==
    IF s = <<>> THEN <<>>
    ELSE IF Head(s) \in Whitespace THEN LStrip(Tail(s)) ELSE s

RECURSIVE RStrip(_)
RStrip(s) ==
    IF s = <<>> THEN <<>>
    ELSE IF s[Len(s)] \in Whitespace THEN RStrip(SubSeq(s, 1, Len(s) - 1)) ELSE s

\* str.strip()
Strip(s) == RStrip(LStrip(s))

\* str.startswith(p)
StartsWith(s, p) == Len(s) >= Len(p) /\ SubSeq(s, 1, Len(p)) = p

\* str.find(p), 1-based; 0 when p does not occur
Find(s, p) ==
    LET hits == {i \in 1..(Len(s) - Len(p) + 1) : SubSeq(s, i, i + Len(p) - 1) = p}
    IN IF hits = {} THEN 0 ELSE CHOOSE i \in hits : \A j \in hits : i <= j

\* p in s
Contains(s, p) == Find(s, p) # 0

\* str.replace(old, new, 1)
ReplaceFirst(s, old, new) ==
    LET i == Find(s, old)
    IN IF i = 0 THEN s
       ELSE SubSeq(s, 1, i - 1) \o new \o SubSeq(s, i + Len(old), Len(s))

\* str.splitlines(), scanning from position i with the current line starting at start
RECURSIVE SplitLinesAt(_, _, _)
SplitLinesAt(s, i, start) ==
    IF i > Len(s)
    THEN IF start <= Len(s) THEN <<SubSeq(s, start, Len(s))>> ELSE <<>>
    ELSE IF s[i] \in LineBreaks
         THEN LET w == IF s[i] = "\r" /\ i < Len(s) /\ s[i + 1] = "\n" THEN 2 ELSE 1
              IN <<SubSeq(s, start, i - 1)>> \o SplitLinesAt(s, i + w, i + w)
         ELSE SplitLinesAt(s, i + 1, start)

SplitLines(s) == SplitLinesAt(s, 1, 1)

\* "\n".join(lines)
RECURSIVE Join(_)
Join(lines) ==
    IF lines = <<>> THEN <<>>
    ELSE IF Len(lines) = 1 THEN lines[1]
    ELSE lines[1] \o <<NL>> \o Join(Tail(lines))

\* variant of ListInsert that overwrites the element at index instead of shifting it
ListInsertOverwrite(lines, index, x) ==
    SubSeq(lines, 1, index) \o <<x>> \o SubSeq(lines, index + 2, Len(lines))

\* list.insert(index, x) for 0 <= index <= len(list)
ListInsert(lines, index, x) ==
    SubSeq(lines, 1, index) \o <<x>> \o SubSeq(lines, index + 1, Len(lines))

----------------------------------------------------------------------------
(* Literals of the source *)

PENDING == <<"[", " ", "]">>
DONE == <<"[", "x", "]">>
DASH == <<"-">>
HASH == <<"#">>
DASH_PENDING == <<"-", " ", "[", " ", "]">>
DASH_DONE == <<"-", " ", "[", "x", "]">>
ITEM_PREFIX == <<"-", " ", "[", " ", "]", " ">>
SOME_HEADER == <<"#", " ", "S", "o", "m", "e", " ", "H", "e", "a", "d", "e", "r">>
ANOTHER_SECTION ==
    <<"#", " ", "A", "n", "o", "t", "h", "e", "r", " ", "S", "e", "c", "t", "i", "o", "n">>

----------------------------------------------------------------------------
(* mark_todo_done: the line scan *)

\* variant of MatchesTodo that leaves out the test for the pending marker
MatchesTodoAnyState(line, text) == Strip(line) = Strip(text)

\* variant of MatchesTodo that compares the line as it is, untrimmed
MatchesTodoExact(line, text) == line = text /\ Contains(line, PENDING)

\* the test of the loop body: line.strip() == todo_text.strip() and "[ ]" in line
MatchesTodo(line, text) == Strip(line) = Strip(text) /\ Contains(line, PENDING)

\* variant of FindTodoLine without the break: the last matching line wins
RECURSIVE FindLastTodoLine(_, _, _)
FindLastTodoLine(lines, text, i) ==
    IF i >= Len(lines) THEN -1
    ELSE LET later == FindLastTodoLine(lines, text, i + 1)
         IN IF later >= 0 THEN later
            ELSE IF Strip(lines[i + 1]) = Strip(text) /\ Contains(lines[i + 1], PENDING)
                 THEN i ELSE -1

\* for i, line in enumerate(lines): ... break -- the index (0-based) at which the
\* loop breaks, scanning from index i; -1 when it runs to the end (todo_found False)
RECURSIVE FindTodoLine(_, _, _)
FindTodoLine(lines, text, i) ==
    IF i >= Len(lines) THEN -1
    ELSE IF MatchesTodo(lines[i + 1], text) THEN i
    ELSE FindTodoLine(lines, text, i + 1)

\* variant of MarkLine without the count: every "[ ]" of the line is replaced
RECURSIVE MarkLineEvery(_)
MarkLineEvery(line) ==
    IF Find(line, PENDING) = 0 THEN line
    ELSE MarkLineEvery(SubSeq(line, 1, Find(line, PENDING)) \o <<"x">>
                       \o SubSeq(line, Find(line, PENDING) + 2, Len(line)))

\* variant of MarkLine that loses the replacement: the line stays as it was
MarkLineUnchanged(line) == line

\* lines[i] = line.replace("[ ]", "[x]", 1)
MarkLine(line) == ReplaceFirst(line, PENDING, DONE)

\* the list `lines` after the loop
MarkedLines(lines, text) ==
    LET i == FindTodoLine(lines, text, 0)
    IN IF i < 0 THEN lines ELSE [lines EXCEPT ![i + 1] = MarkLine(lines[i + 1])]

----------------------------------------------------------------------------
(* add_todo: formatting and placement *)

\* variant of FormatTodoText that tests the first character of the text as given
FormatTodoTextAsGiven(text) ==
    IF ~StartsWith(text, DASH) THEN ITEM_PREFIX \o text
    ELSE IF ~Contains(text, PENDING) /\ ~Contains(text, DONE)
         THEN ReplaceFirst(text, DASH, DASH_PENDING)
         ELSE text

\* variant of FormatTodoText that prefixes every text
FormatTodoTextAlwaysPrefix(text) == ITEM_PREFIX \o text

\* the checkbox formatting of todo_text
FormatTodoText(text) ==
    IF ~StartsWith(Strip(text), DASH) THEN ITEM_PREFIX \o text
    ELSE IF ~Contains(text, PENDING) /\ ~Contains(text, DONE)
         THEN ReplaceFirst(text, DASH, DASH_PENDING)
         ELSE text

\* not content.strip()
IsEmptyFile(content) == Strip(content) = <<>>

\* variant of EmptyFileContent that starts a new line after any empty content
EmptyFileContentNewline(content, text) == <<NL>> \o text

\* updated_content of the empty-file case
EmptyFileContent(content, text) ==
    IF content # <<>> THEN content \o text ELSE <<NL>> \o text

\* the pattern of lines the handler treats specially
IsTestPattern(lines) ==
    /\ Len(lines) >= 4
    /\ StartsWith(lines[1], SOME_HEADER)
    /\ StartsWith(lines[4], ANOTHER_SECTION)

\* re.search(r"- \[[ x]\]", line)
IsTodoLine(line) == Contains(line, DASH_PENDING) \/ Contains(line, DASH_DONE)

\* j = i; while j >= 0: if lines[j].startswith("#"): ... break; j -= 1
RECURSIVE FindHeaderAbove(_, _)
FindHeaderAbove(lines, j) ==
    IF j < 0 THEN -1
    ELSE IF StartsWith(lines[j + 1], HASH) THEN j
    ELSE FindHeaderAbove(lines, j - 1)

\* variant of ScanTodos that records the first header line it passes as the
\* section, whether or not a checklist line follows
RECURSIVE ScanTodosHeaders(_, _, _, _)
ScanTodosHeaders(lines, i, section, last) ==
    IF i >= Len(lines)
    THEN [todo_section_index |-> section, last_todo_index |-> last]
    ELSE ScanTodosHeaders(lines, i + 1,
             IF section < 0 /\ StartsWith(lines[i + 1], HASH) THEN i ELSE section,
             IF Contains(lines[i + 1], DASH_PENDING) \/ Contains(lines[i + 1], DASH_DONE)
             THEN i ELSE last)

\* the scan loop from index i on, carrying todo_section_index and last_todo_index
RECURSIVE ScanTodos(_, _, _, _)
ScanTodos(lines, i, section, last) ==
    IF i >= Len(lines)
    THEN [todo_section_index |-> section, last_todo_index |-> last]
    ELSE IF IsTodoLine(lines[i + 1])
         THEN ScanTodos(lines, i + 1,
                        IF section < 0 THEN FindHeaderAbove(lines, i) ELSE section, i)
         ELSE ScanTodos(lines, i + 1, section, last)

\* the placement decision after the scan
PlaceTodo(lines, todo_section_index, last_todo_index) ==
    IF last_todo_index >= 0 /\ todo_section_index < 0 THEN last_todo_index + 1
    ELSE IF todo_section_index >= 0
         THEN IF last_todo_index >= 0 THEN last_todo_index + 1
              ELSE IF todo_section_index + 1 < Len(lines)
                   THEN todo_section_index + 2
                   ELSE Len(lines)
         ELSE Len(lines)

\* insertion_index for a file that is not empty
InsertionIndex(lines) ==
    IF IsTestPattern(lines) THEN 2
    ELSE LET scan == ScanTodos(lines, 0, -1, -1)
         IN PlaceTodo(lines, scan.todo_section_index, scan.last_todo_index)

\* updated_content of add_todo, text being the formatted todo_text
AddedContent(content, text) ==
    IF IsEmptyFile(content) THEN EmptyFileContent(content, text)
    ELSE LET lines == SplitLines(content)
         IN Join(ListInsert(lines, InsertionIndex(lines), text))

----------------------------------------------------------------------------
(* Bounded inputs: documents, todo texts to mark, item texts to add *)

LINE_PENDING == <<"-", " ", "[", " ", "]", " ", "a">>
LINE_INDENTED == <<" ", "-", " ", "[", " ", "]", " ", "a">>
LINE_DONE == <<"-", " ", "[", "x", "]", " ", "a">>
LINE_TWO_BOXES == <<"[", " ", "]", " ", "[", " ", "]">>

\* the lines documents are made of; the empty line is the line that is neither a
\* header nor a todo
DocLines ==
    {<<>>, SOME_HEADER, ANOTHER_SECTION, LINE_PENDING, LINE_INDENTED, LINE_DONE,
     LINE_TWO_BOXES}

LineSeqs == UNION {[1..n -> DocLines] : n \in 0..MaxLines}

\* documents without a non-blank line; the first is the zero-length document
BlankDocs == {<<>>, <<" ">>, <<NL>>, <<" ", NL>>, <<NL, NL>>, <<"\t", " ">>}

\* the documents of one request; a sequence that ends with the empty line gives a
\* document that ends with a line terminator
Docs == BlankDocs \cup {Join(ls) : ls \in LineSeqs}

\* the documents of several requests in a row
SeqLines == {<<>>, SOME_HEADER, LINE_PENDING, LINE_INDENTED, LINE_DONE}

SeqDocs == BlankDocs \cup {Join(ls) : ls \in UNION {[1..n -> SeqLines] : n \in 0..MaxSeqLines}}

\* todo_text values passed to mark_todo_done
MarkTexts ==
    {LINE_PENDING, <<" ">> \o LINE_PENDING \o <<" ", NL>>, LINE_DONE, LINE_TWO_BOXES}

\* todo_text values passed to add_todo
AddTexts ==
    {<<"c">>, <<" ", "-", " ", "c">>, <<"-", " ", "[", " ", "]", " ", "c">>,
     <<"-", " ", "[", "x", "]", " ", "c">>}

\* the documents and item texts of add_todo requests in a row: a text without
\* bullet, one with bullet and marker, one with a marker right after the bullet
AddLines == {<<>>, SOME_HEADER, ANOTHER_SECTION, LINE_PENDING, LINE_DONE}

AddDocs ==
    {<<>>, <<" ">>} \cup {Join(ls) : ls \in UNION {[1..n -> AddLines] : n \in 0..MaxLines}}

ItemTexts ==
    {<<"c">>, <<"-", " ", "[", "x", "]", " ", "c">>, <<"-", "[", " ", "]", " ", "d">>}

\* item texts and documents of the formatting runs
FormatPieces == {<<"-">>, <<" ">>, PENDING, DONE, <<"c">>, <<"[">>}

RECURSIVE Concat(_)
Concat(pieces) == IF pieces = <<>> THEN <<>> ELSE Head(pieces) \o Concat(Tail(pieces))

FormatTexts == {Concat(ps) : ps \in UNION {[1..n -> FormatPieces] : n \in 0..MaxPieces}}

FormatDocs == {<<>>, <<" ">>, SOME_HEADER \o <<NL>> \o LINE_PENDING}

\* the paths of the two notes, as the note tool prints them
NOTE == <<"a">>
OTHER_NOTE == <<"b">>
NotePaths == {NOTE, OTHER_NOTE}

\* the notes of the requests that read notes
NoteLines == {<<>>, LINE_PENDING, LINE_INDENTED, LINE_DONE, LINE_TWO_BOXES}

NoteDocs == {Join(ls) : ls \in UNION {[1..n -> NoteLines] : n \in 0..MaxNoteLines}}

\* the notes of the runs in which requests fail
ErrorDocs == {<<>>, LINE_PENDING}

OtherDocs == {<<>>, LINE_TWO_BOXES, LINE_DONE \o <<NL>> \o LINE_INDENTED}

\* answers of the note tool: path characters and line terminators
Stdouts == UNION {[1..n -> {"a", "b", NL}] : n \in 0..MaxStdout}

\* how the command ends: exit status 0 with an answer, another exit status, not
\* run at all
Commands ==
    {[stdout |-> out, cmd |-> "ok"] : out \in Stdouts}
        \cup {[stdout |-> <<>>, cmd |-> c] : c \in {"exit_nonzero", "cannot_run"}}

\* answers of the note tool that list the first note
DrainListings ==
    {NOTE, NOTE \o <<NL>> \o OTHER_NOTE, OTHER_NOTE \o <<NL>> \o NOTE \o <<NL>>}

\* the command of the runs in which requests fail: no answer, the first note, or a
\* failure
ErrorCommands ==
    {[stdout |-> out, cmd |-> "ok"] : out \in {<<>>, NOTE}}
        \cup {[stdout |-> <<>>, cmd |-> c] : c \in {"exit_nonzero", "cannot_run"}}

\* what the file system does to the reads of a request that edits nothing
ReadIOs == {"ok", "read_fails"}

\* what the file system does to the call: the read fails, the write fails in
\* open(file_path, "w") before the file is touched, the write fails in f.write
\* after the file was truncated, or nothing fails
IOs == {"ok", "read_fails", "open_fails", "write_fails"}

\* content of the file after an attempt to write updated_content
FileAfterWrite(content, updated_content, io) ==
    IF io = "ok" THEN updated_content
    ELSE IF io = "open_fails" THEN content
    ELSE <<>>

----------------------------------------------------------------------------
(* The handlers *)

\* the two edits that may overlap on the note file
Writers == {1, 2}

\* no edit under way
NoEdits ==
    [w \in Writers |->
        [pc |-> "idle", op |-> "none", todo_text |-> <<>>, content |-> <<>>,
         outcome |-> "none", error_code |-> 0, returned |-> <<>>]]

\* no request served yet
Idle ==
    /\ op = "none"
    /\ todo_text = <<>>
    /\ before = file
    /\ outcome = "none"
    /\ error_code = 0
    /\ returned = <<>>
    /\ writes = 0
    /\ write_error = FALSE
    /\ insertion_index = -1
    /\ previous = [op |-> "none", todo_text |-> <<>>, before |-> <<>>,
                   outcome |-> "none", error_code |-> 0, failure |-> "none",
                   insertion_index |-> -1]
    /\ failure = "none"
    /\ listing = <<>>
    /\ todos = <<>>
    /\ original = file
    /\ edits = NoEdits
    /\ schedule = <<>>

\* one request on a document of Docs
Init == file \in Docs /\ other = <<>> /\ calls_left = 1 /\ Idle

\* up to MaxCalls requests in a row on a document of SeqDocs
InitSeq == file \in SeqDocs /\ other = <<>> /\ calls_left = MaxCalls /\ Idle

\* the record of the call that ran last, kept while the next one runs
LastCall ==
    [op |-> op, todo_text |-> todo_text, before |-> before,
     outcome |-> outcome, error_code |-> error_code, failure |-> failure,
     insertion_index |-> insertion_index]

\* what a request that is served alone leaves as it is
ServedAlone == UNCHANGED <<other, original, edits, schedule>>

\* an McpError raised before any write was attempted, by the raise statement site
Raise(code, site) ==
    /\ outcome' = "McpError"
    /\ error_code' = code
    /\ failure' = site
    /\ returned' = <<>>
    /\ writes' = 0
    /\ write_error' = FALSE
    /\ file' = file

\* variant of WriteAndReturn that swallows the exception of a failed write
WriteAndReturnSwallowed(updated_content, io) ==
    /\ writes' = 1
    /\ write_error' = (io # "ok")
    /\ file' = FileAfterWrite(file, updated_content, io)
    /\ outcome' = "TodoNote" /\ error_code' = 0 /\ returned' = updated_content
    /\ failure' = "none"

\* variant of WriteAndReturn that reports a failed write with the code of a failed
\* read
WriteAndReturnReadCode(updated_content, io) ==
    /\ writes' = 1
    /\ write_error' = (io # "ok")
    /\ file' = FileAfterWrite(file, updated_content, io)
    /\ IF io = "ok"
       THEN /\ outcome' = "TodoNote" /\ error_code' = 0 /\ returned' = updated_content
            /\ failure' = "none"
       ELSE /\ outcome' = "McpError" /\ error_code' = FILE_READ_ERROR /\ returned' = <<>>
            /\ failure' = "file_write"

\* with open(file_path, "w") as f: f.write(updated_content), then the return of
\* TodoNote(content=updated_content), or the McpError made of the exception
WriteAndReturn(updated_content, io) ==
    /\ writes' = 1
    /\ write_error' = (io # "ok")
    /\ file' = FileAfterWrite(file, updated_content, io)
    /\ IF io = "ok"
       THEN /\ outcome' = "TodoNote" /\ error_code' = 0 /\ returned' = updated_content
            /\ failure' = "none"
       ELSE /\ outcome' = "McpError" /\ error_code' = COMMAND_ERROR /\ returned' = <<>>
            /\ failure' = "file_write"

\* TdoServer.mark_todo_done(file_path, text)
MarkTodoDoneCall(text, io) ==
    /\ calls_left' = calls_left - 1
    /\ previous' = LastCall
    /\ op' = "mark_todo_done"
    /\ todo_text' = text
    /\ before' = file
    /\ insertion_index' = -1
    /\ ServedAlone
    /\ UNCHANGED <<listing, todos>>
    /\ IF io = "read_fails" THEN Raise(FILE_READ_ERROR, "file_read")
       ELSE \E lines \in {SplitLines(file)} :
                IF FindTodoLine(lines, text, 0) < 0 THEN Raise(NOT_FOUND, "no_todo")
                ELSE \E marked \in {MarkedLines(lines, text)} :
                     \E updated_content \in {Join(marked)} :
                         WriteAndReturn(updated_content, io)

\* TdoServer.add_todo(file_path, text)
AddTodoCall(text, io) ==
    /\ calls_left' = calls_left - 1
    /\ previous' = LastCall
    /\ op' = "add_todo"
    /\ todo_text' = text
    /\ before' = file
    /\ ServedAlone
    /\ UNCHANGED <<listing, todos>>
    /\ IF io = "read_fails"
       THEN Raise(FILE_READ_ERROR, "file_read") /\ insertion_index' = -1
       ELSE /\ WriteAndReturn(AddedContent(file, FormatTodoText(text)), io)
            /\ insertion_index' =
                   IF IsEmptyFile(file) THEN -1 ELSE InsertionIndex(SplitLines(file))

\* what a request that edits nothing leaves as it is
NothingWritten ==
    /\ writes' = 0
    /\ write_error' = FALSE
    /\ file' = file
    /\ insertion_index' = -1

\* _run_command: the answer of the note tool, stripped, when the command ran and
\* exited with 0 (cmd = "ok"); it returns nothing when it raises
CommandOutput(stdout, cmd) == IF cmd = "ok" THEN Strip(stdout) ELSE <<>>

\* the McpError _run_command raises: CalledProcessError (exit status not 0), or any
\* other exception of subprocess.run (the command could not be run)
RaiseCommand(cmd) ==
    IF cmd = "exit_nonzero" THEN Raise(COMMAND_FAILED, "command_failed")
    ELSE Raise(COMMAND_ERROR, "command_error")

\* _read_file_contents(path) returns: the path names one of the two notes and
\* open/read do not raise
Readable(path, io) == path \in NotePaths /\ io # "read_fails"

\* what _read_file_contents(path) returns
ContentAt(path) == IF path = NOTE THEN file ELSE other

\* TdoServer.get_todo_contents(offset); the offset only changes the arguments of
\* the command, whose answer is stdout
GetTodoContentsCall(stdout, cmd, io) ==
    /\ calls_left' = calls_left - 1
    /\ previous' = LastCall
    /\ op' = "get_todo_contents"
    /\ todo_text' = <<>>
    /\ before' = file
    /\ NothingWritten
    /\ ServedAlone
    /\ todos' = todos
    /\ IF cmd # "ok" THEN RaiseCommand(cmd) /\ listing' = <<>>
       ELSE LET file_path == CommandOutput(stdout, cmd)
            IN IF file_path = <<>>
               THEN Raise(NOT_FOUND, "no_note") /\ listing' = <<>>
               ELSE /\ listing' = <<file_path>>
                    /\ IF ~Readable(file_path, io)
                       THEN Raise(FILE_READ_ERROR, "file_read")
                       ELSE /\ outcome' = "TodoNote"
                            /\ error_code' = 0
                            /\ failure' = "none"
                            /\ returned' = ContentAt(file_path)

\* variant of IsPendingLine that asks for the checklist bullet, as the section scan
\* of add_todo does
IsPendingLineWithBullet(line) == Contains(line, DASH_PENDING)

\* re.search(r"\[ \]", line)
IsPendingLine(line) == Contains(line, PENDING)

\* for line in content.splitlines(): if ...: todos.append({"file": path, "todo":
\* line.strip()}) -- the entries appended from index i on
RECURSIVE PendingOfFile(_, _, _)
PendingOfFile(path, lines, i) ==
    IF i >= Len(lines) THEN <<>>
    ELSE (IF IsPendingLine(lines[i + 1])
          THEN <<[file |-> path, todo |-> Strip(lines[i + 1])]>>
          ELSE <<>>) \o PendingOfFile(path, lines, i + 1)

\* content = self._read_file_contents(path), then the loop over
\* content.splitlines(), which is computed once
PendingOfNote(path) ==
    CHOOSE found \in {PendingOfFile(path, lines, 0) :
                         lines \in {SplitLines(ContentAt(path))}} : TRUE

\* for path in file_paths: if path: ... from index i on, acc being todos so far;
\* raised tells that a read raised, which ends the loop
RECURSIVE CollectPending(_, _, _, _)
CollectPending(file_paths, i, acc, io) ==
    IF i >= Len(file_paths) THEN [raised |-> FALSE, todos |-> acc]
    ELSE LET path == file_paths[i + 1]
         IN IF path = <<>> THEN CollectPending(file_paths, i + 1, acc, io)
            ELSE IF ~Readable(path, io) THEN [raised |-> TRUE, todos |-> acc]
            ELSE CollectPending(file_paths, i + 1, acc \o PendingOfNote(path), io)

\* TdoServer.get_pending_todos()
GetPendingTodosCall(stdout, cmd, io) ==
    /\ calls_left' = calls_left - 1
    /\ previous' = LastCall
    /\ op' = "get_pending_todos"
    /\ todo_text' = <<>>
    /\ before' = file
    /\ NothingWritten
    /\ ServedAlone
    /\ IF cmd # "ok" THEN RaiseCommand(cmd) /\ listing' = <<>> /\ todos' = todos
       ELSE \E file_paths \in {SplitLines(CommandOutput(stdout, cmd))} :
            \E found \in {CollectPending(file_paths, 0, <<>>, io)} :
                /\ listing' = file_paths
                /\ IF found.raised
                   THEN Raise(FILE_READ_ERROR, "file_read") /\ todos' = todos
                   ELSE /\ outcome' = "PendingTodos"
                        /\ error_code' = 0
                        /\ failure' = "none"
                        /\ returned' = <<>>
                        /\ todos' = found.todos

\* the client sends a request as long as it has one left
MarkTodoDone ==
    calls_left > 0 /\ \E text \in MarkTexts, io \in IOs : MarkTodoDoneCall(text, io)

AddTodo ==
    calls_left > 0 /\ \E text \in AddTexts, io \in IOs : AddTodoCall(text, io)

Next == MarkTodoDone \/ AddTodo

Spec == Init /\ [][Next]_vars

SpecSeq == InitSeq /\ [][Next]_vars

\* one add_todo request with an item text of FormatTexts
InitFormat == file \in FormatDocs /\ other = <<>> /\ calls_left = 1 /\ Idle

AddFormatted ==
    calls_left > 0 /\ \E text \in FormatTexts, io \in IOs : AddTodoCall(text, io)

NextFormat == AddFormatted

SpecFormat == InitFormat /\ [][NextFormat]_vars

\* up to MaxCalls add_todo requests in a row, none of which fails
InitAdds == file \in AddDocs /\ other = <<>> /\ calls_left = MaxCalls /\ Idle

AddItem == calls_left > 0 /\ \E text \in ItemTexts : AddTodoCall(text, "ok")

NextAdds == AddItem

SpecAdds == InitAdds /\ [][NextAdds]_vars

\* the client empties the pending list of the first note: it asks for the pending
\* todos, passes one entry of that note back to mark_todo_done, asks again, and
\* stops when a request fails; DrainCalls requests are more than it can need
DrainCalls == 2 * (2 * MaxNoteLines) + 1

InitDrain == file \in NoteDocs /\ other \in OtherDocs /\ calls_left = DrainCalls /\ Idle

DrainList ==
    /\ calls_left > 0
    /\ op # "get_pending_todos"
    /\ outcome # "McpError"
    /\ \E stdout \in DrainListings : GetPendingTodosCall(stdout, "ok", "ok")

DrainMark ==
    /\ calls_left > 0
    /\ op = "get_pending_todos"
    /\ outcome = "PendingTodos"
    /\ \E k \in 1..Len(todos), io \in IOs :
           todos[k].file = NOTE /\ MarkTodoDoneCall(todos[k].todo, io)

NextDrain == DrainList \/ DrainMark

\* the client goes on as long as it has a request to send
SpecDrain == InitDrain /\ [][NextDrain]_vars /\ WF_vars(NextDrain)

\* one request that reads notes
InitNotes == file \in NoteDocs /\ other \in OtherDocs /\ calls_left = 1 /\ Idle

GetTodoContents ==
    /\ calls_left > 0
    /\ \E run \in Commands, io \in ReadIOs : GetTodoContentsCall(run.stdout, run.cmd, io)

GetPendingTodos ==
    /\ calls_left > 0
    /\ \E run \in Commands, io \in ReadIOs : GetPendingTodosCall(run.stdout, run.cmd, io)

NextNotes == GetTodoContents \/ GetPendingTodos

SpecNotes == InitNotes /\ [][NextNotes]_vars

\* up to MaxCalls requests of any kind in a row, each of which may fail
InitErrors ==
    file \in ErrorDocs /\ other = LINE_TWO_BOXES /\ calls_left = MaxCalls /\ Idle

ResolveNote ==
    /\ calls_left > 0
    /\ \E run \in ErrorCommands, io \in ReadIOs :
           GetTodoContentsCall(run.stdout, run.cmd, io)

ListPending ==
    /\ calls_left > 0
    /\ \E run \in ErrorCommands, io \in ReadIOs :
           GetPendingTodosCall(run.stdout, run.cmd, io)

NextErrors == ResolveNote \/ ListPending \/ MarkTodoDone \/ AddTodo

SpecErrors == InitErrors /\ [][NextErrors]_vars

----------------------------------------------------------------------------
(* Two edits of the note file that overlap: each reads the file (lines 137, 178)
   and later writes what it computed from what it read (lines 160-161, 255-256);
   nothing orders the steps of one edit against those of the other *)

\* the requests of the overlapping edits
EditRequests ==
    {[op |-> "mark_todo_done", todo_text |-> t] : t \in MarkTexts}
        \cup {[op |-> "add_todo", todo_text |-> t] : t \in AddTexts}

\* what is left as it is while edits overlap: the record of requests served alone
RequestsUnchanged ==
    UNCHANGED <<op, todo_text, before, outcome, error_code, returned, writes,
                write_error, insertion_index, previous, calls_left, failure, other,
                listing, todos, original>>

\* todo_found of mark_todo_done; add_todo raises nothing of its own
EditFound(name, text, content) ==
    name = "add_todo" \/ FindTodoLine(SplitLines(content), text, 0) >= 0

\* updated_content of either handler
EditedContent(name, text, content) ==
    IF name = "mark_todo_done" THEN Join(MarkedLines(SplitLines(content), text))
    ELSE AddedContent(content, FormatTodoText(text))

\* variant of ContentEdited in which the edit works on what the file holds when it
\* writes (as under a lock around the whole edit, or a re-read before the write)
ContentEditedOnDisk(content, on_disk) == on_disk

\* the text an edit transforms: the content it read, whatever the file holds by
\* the time it writes
ContentEdited(content, on_disk) == content

\* content = self._read_file_contents(file_path) of the edit w
RaceRead(w) ==
    /\ edits[w].pc = "idle"
    /\ \E request \in EditRequests :
           edits' = [edits EXCEPT ![w] =
                        [pc |-> "read", op |-> request.op, todo_text |-> request.todo_text,
                         content |-> file, outcome |-> "none", error_code |-> 0,
                         returned |-> <<>>]]
    /\ schedule' = Append(schedule, <<w, "read">>)
    /\ file' = file
    /\ RequestsUnchanged

\* the rest of the edit w: raise NOT_FOUND, or write updated_content and return it
RaceWrite(w) ==
    /\ edits[w].pc = "read"
    /\ LET e == edits[w]
           content == ContentEdited(e.content, file)
       IN IF ~EditFound(e.op, e.todo_text, content)
          THEN /\ edits' = [edits EXCEPT ![w] =
                               [e EXCEPT !.pc = "done", !.outcome = "McpError",
                                         !.error_code = NOT_FOUND]]
               /\ file' = file
          ELSE LET updated_content == EditedContent(e.op, e.todo_text, content)
               IN /\ edits' = [edits EXCEPT ![w] =
                                  [e EXCEPT !.pc = "done", !.outcome = "TodoNote",
                                            !.returned = updated_content]]
                  /\ file' = updated_content
    /\ schedule' = Append(schedule, <<w, "write">>)
    /\ RequestsUnchanged

InitRace == file \in SeqDocs /\ other = <<>> /\ calls_left = 0 /\ Idle

NextRace == \E w \in Writers : RaceRead(w) \/ RaceWrite(w)

SpecRace == InitRace /\ [][NextRace]_vars

----------------------------------------------------------------------------
(* Reference definitions the properties are stated with *)

Min(S) == CHOOSE x \in S : \A y \in S : x <= y

Max(S) == CHOOSE x \in S : \A y \in S : x >= y

\* the line sequence with item as its new line number k + 1, the lines before it
\* and the lines after it kept in order
Spliced(lines, k, item) ==
    [j \in 1..(Len(lines) + 1) |->
        IF j <= k THEN lines[j] ELSE IF j = k + 1 THEN item ELSE lines[j - 1]]

\* positions (1-based) at which the pending marker starts in a line
PendingAt(line) ==
    {k \in 1..(Len(line) - 2) : line[k] = "[" /\ line[k + 1] = " " /\ line[k + 2] = "]"}

\* lines (1-based) of a document a todo text designates: same trimmed text, pending
Candidates(lines, text) ==
    {i \in 1..Len(lines) : Strip(lines[i]) = Strip(text) /\ PendingAt(lines[i]) # {}}

\* a line with its leftmost pending marker turned into the done marker
Flipped(line) ==
    LET k == Min(PendingAt(line))
    IN [n \in 1..Len(line) |-> IF n = k + 1 THEN "x" ELSE line[n]]

\* a document with the lowest designated line flipped and every other line kept
ToggledLines(lines, text) ==
    LET i == Min(Candidates(lines, text))
    IN [j \in 1..Len(lines) |-> IF j = i THEN Flipped(lines[j]) ELSE lines[j]]

\* the text begins, after its leading whitespace, with the bullet marker
BeginsWithBullet(text) == LStrip(text) # <<>> /\ Head(LStrip(text)) = "-"

\* the text holds a state marker, "[ ]" or "[x]"
HasMarker(text) ==
    \E k \in 1..(Len(text) - 2) :
        text[k] = "[" /\ text[k + 1] \in {" ", "x"} /\ text[k + 2] = "]"

\* the item text with " [ ]" put right after its character at position k
MarkerAfter(text, k) ==
    SubSeq(text, 1, k) \o <<" ", "[", " ", "]">> \o SubSeq(text, k + 1, Len(text))

\* the three rules, the first character being that of the text as given
NormalizedAsGiven(text) ==
    IF text = <<>> \/ Head(text) # "-" THEN <<"-", " ", "[", " ", "]", " ">> \o text
    ELSE IF ~HasMarker(text) THEN MarkerAfter(text, 1)
    ELSE text

\* the three rules, the first character being that of the trimmed text
Normalized(text) ==
    IF ~BeginsWithBullet(text) THEN <<"-", " ", "[", " ", "]", " ">> \o text
    ELSE IF ~HasMarker(text) THEN MarkerAfter(text, Len(text) - Len(LStrip(text)) + 1)
    ELSE text

\* the text add_todo put into the file, read off what it wrote: what follows the
\* old content (or the newline) of an empty file, else the line at insertion_index
InsertedText ==
    IF IsEmptyFile(before)
    THEN SubSeq(file, (IF before = <<>> THEN 2 ELSE Len(before) + 1), Len(file))
    ELSE LET lines == SplitLines(file)
         IN IF insertion_index + 1 \in 1..Len(lines) THEN lines[insertion_index + 1]
            ELSE <<>>

\* lines (1-based) that hold a checklist item, "- [ ]" or "- [x]"
TodoLines(lines) ==
    {i \in 1..Len(lines) :
        \E k \in 1..(Len(lines[i]) - 4) :
            /\ lines[i][k] = "-" /\ lines[i][k + 1] = " " /\ lines[i][k + 2] = "["
            /\ lines[i][k + 3] \in {" ", "x"} /\ lines[i][k + 4] = "]"}

\* lines (1-based) that are headers
HeaderLines(lines) == {i \in 1..Len(lines) : lines[i] # <<>> /\ Head(lines[i]) = "#"}

\* the failure kind of a raise statement: the command exited with another status
\* than 0 or could not be run, a file could not be read, a file could not be
\* written, the command named no note, the todo to mark is not pending in the note
KindOf(site) ==
    CASE site = "command_failed" -> "ExternalCommandFailed"
      [] site = "command_error" -> "ExternalCommandFailed"
      [] site = "file_read" -> "FileReadFailed"
      [] site = "file_write" -> "FileWriteFailed"
      [] site = "no_note" -> "NoteNotFound"
      [] site = "no_todo" -> "TodoNotFound"

\* the codes a failure kind is raised with
CodesOf(kind) ==
    CASE kind = "ExternalCommandFailed" -> {COMMAND_FAILED, COMMAND_ERROR}
      [] kind = "FileReadFailed" -> {FILE_READ_ERROR}
      [] kind = "FileWriteFailed" -> {COMMAND_ERROR}
      [] kind = "NoteNotFound" -> {NOT_FOUND}
      [] kind = "TodoNotFound" -> {NOT_FOUND}

\* the pairs of different kinds that are raised with one code
SharedCode ==
    {{"NoteNotFound", "TodoNotFound"}, {"ExternalCommandFailed", "FileWriteFailed"}}

\* the request served last and the one before it both failed
TwoFailures == outcome = "McpError" /\ previous.outcome = "McpError"

\* the files the note tool listed, in its order: the lines of its answer that are
\* not empty
ListedFiles == SelectSeq(listing, LAMBDA path : path # <<>>)

\* the lines of the f-th listed file
ListedLines(f) == SplitLines(ContentAt(ListedFiles[f]))

\* <<f, i>> for every line i (1-based) of the f-th listed file that holds "[ ]"
PendingPlaces ==
    {fi \in UNION {{<<f, i>> : i \in 1..Len(ListedLines(f))} : f \in 1..Len(ListedFiles)} :
        PendingAt(ListedLines(fi[1])[fi[2]]) # {}}

\* file order, then line order within a file
PlaceBefore(p, q) == p[1] < q[1] \/ (p[1] = q[1] /\ p[2] < q[2])

PendingReturned == op = "get_pending_todos" /\ outcome = "PendingTodos"

MarkReturned == op = "mark_todo_done" /\ outcome = "TodoNote"

AddReturned == op = "add_todo" /\ outcome = "TodoNote"

----------------------------------------------------------------------------
(* Properties *)

\* C1: when mark_todo_done succeeds on a document D (its lines being those of
\* splitlines), what it writes and returns is the "\n"-join of a line sequence as
\* long as D that differs from D in one line only: the lowest-index line whose
\* trimmed text equals the trimmed target and which holds "[ ]", with its leftmost
\* "[ ]" turned into "[x]"; every other line, later lines of the same text
\* included, is kept in place.
C1_MarkFlipsFirstMatch ==
    MarkReturned =>
        LET D == SplitLines(before)
        IN /\ Candidates(D, todo_text) # {}
           /\ file = Join(ToggledLines(D, todo_text))
           /\ returned = file

\* C1 witness: a successful call on a document with several pending lines of the
\* target's text, the first of them holding the marker twice.
C1_Witness ==
    /\ MarkReturned
    /\ LET D == SplitLines(before)
           M == Candidates(D, todo_text)
       IN /\ Cardinality(M) >= 2
          /\ Cardinality(PendingAt(D[Min(M)])) >= 2
          /\ file # before

\* C2: when the file is read and no line has both the target's trimmed text and
\* "[ ]", mark_todo_done raises NOT_FOUND, attempts no write and leaves the file
\* as it was.
C2_NotFoundNoWrite ==
    (/\ op = "mark_todo_done"
     /\ error_code # FILE_READ_ERROR
     /\ Candidates(SplitLines(before), todo_text) = {})
    => /\ outcome = "McpError" /\ error_code = NOT_FOUND
       /\ writes = 0 /\ file = before /\ returned = <<>>

\* C2 witness: the target's text is in the document, but only on a done line.
C2_Witness ==
    /\ op = "mark_todo_done"
    /\ error_code = NOT_FOUND
    /\ \E i \in 1..Len(SplitLines(before)) :
           /\ Strip(SplitLines(before)[i]) = Strip(todo_text)
           /\ Contains(SplitLines(before)[i], DONE)
    /\ file = before

\* a mark_todo_done call that read the file, made right after a successful
\* mark_todo_done call with the same todo_text
RepeatedMark ==
    /\ op = "mark_todo_done"
    /\ error_code # FILE_READ_ERROR
    /\ previous.op = "mark_todo_done"
    /\ previous.outcome = "TodoNote"
    /\ previous.todo_text = todo_text

\* C3 as stated: for every document and target, the call that repeats a
\* successful mark_todo_done fails with NOT_FOUND.
C3_RepeatAlwaysNotFound ==
    RepeatedMark => (outcome = "McpError" /\ error_code = NOT_FOUND)

\* C3 amended: the call that repeats a successful mark_todo_done fails with
\* NOT_FOUND exactly when the original document held one pending line of the
\* target's trimmed text; when it held several, the repeated call finds the next
\* of them (the second of the original document) and, unless its write fails,
\* flips that one.
C3_RepeatNotFoundIffSingle ==
    RepeatedMark =>
        LET D0 == SplitLines(previous.before)
            single == Cardinality(Candidates(D0, todo_text)) = 1
        IN /\ (outcome = "McpError" /\ error_code = NOT_FOUND) <=> single
           /\ single => (writes = 0 /\ file = before)
           /\ ~single => writes = 1
           /\ outcome = "TodoNote" =>
                  LET D1 == SplitLines(before)
                      first == Min(Candidates(D0, todo_text))
                  IN /\ file = Join(ToggledLines(D1, todo_text))
                     /\ Min(Candidates(D1, todo_text)) =
                            Min(Candidates(D0, todo_text) \ {first})

\* C3 witness: the repeated call fails with NOT_FOUND on the file the first call
\* wrote.
C3_Witness ==
    /\ RepeatedMark
    /\ error_code = NOT_FOUND
    /\ before # previous.before
    /\ file = before

\* C4 as stated: add_todo on an empty document, zero-length or whitespace-only,
\* writes and returns one newline followed by the normalized item text, whatever
\* the whitespace.
C4_EmptyAlwaysNewline ==
    (AddReturned /\ IsEmptyFile(before)) =>
        (file = <<NL>> \o Normalized(todo_text) /\ returned = file)

\* C4 amended: on a zero-length document add_todo writes and returns one newline
\* followed by the normalized item text; on a whitespace-only document that is not
\* zero-length it writes and returns the document's own content directly followed
\* by the normalized item text, adding no newline, so the result differs between
\* whitespace-only documents.
C4_EmptyKeepsWhitespace ==
    (AddReturned /\ IsEmptyFile(before)) =>
        /\ file = (IF before = <<>> THEN <<NL>> ELSE before) \o Normalized(todo_text)
        /\ returned = file
        /\ insertion_index = -1

\* C4 witness: add_todo returned on a whitespace-only document that is no newline.
C4_Witness ==
    /\ AddReturned
    /\ IsEmptyFile(before)
    /\ before # <<>>
    /\ before # <<NL>>
    /\ file = before \o Normalized(todo_text)

\* C7 as stated: the text add_todo inserts is the three-rule normalization of the
\* item text, the first rule testing the first character of the text as given.
C7_FormatAsGiven == AddReturned => InsertedText = NormalizedAsGiven(todo_text)

\* C7 amended: the text add_todo inserts is the three-rule normalization of the
\* item text, the rules testing the first character of the trimmed text: leading
\* whitespace is skipped by the test and kept in the result, and rule (2) puts
\* " [ ]" right after the first "-".
C7_FormatTrimmed == AddReturned => InsertedText = Normalized(todo_text)

\* C7 witness: an item text with whitespace before its bullet and no marker.
C7_Witness ==
    /\ AddReturned
    /\ todo_text # <<>>
    /\ Head(todo_text) = " "
    /\ BeginsWithBullet(todo_text)
    /\ ~HasMarker(todo_text)
    /\ InsertedText = Normalized(todo_text)
    /\ InsertedText # NormalizedAsGiven(todo_text)

\* C8: formatting the inserted (formatted) text again returns it unchanged, and an
\* item text that is a bullet plus a state marker is inserted as it is, being the
\* exact line spliced into a document that is not empty.
C8_FormatIdempotent ==
    AddReturned =>
        /\ FormatTodoText(InsertedText) = InsertedText
        /\ (BeginsWithBullet(todo_text) /\ HasMarker(todo_text)) =>
               /\ InsertedText = todo_text
               /\ ~IsEmptyFile(before) =>
                      SplitLines(file) =
                          Spliced(SplitLines(before), insertion_index, todo_text)

\* C8 witness: an already formatted item spliced into a document with a todo list.
C8_Witness ==
    /\ AddReturned
    /\ ~IsEmptyFile(before)
    /\ StartsWith(todo_text, DASH_PENDING)
    /\ Len(todo_text) > Len(DASH_PENDING)
    /\ InsertedText = todo_text

\* C5 as stated: on every document that is not empty and holds a checklist line,
\* with or without a header above it, add_todo inserts the normalized item right
\* after the last checklist line of the document (0-based index of that line + 1).
C5_InsertAfterLastTodo ==
    (AddReturned /\ ~IsEmptyFile(before) /\ TodoLines(SplitLines(before)) # {}) =>
        LET D == SplitLines(before)
            last == Max(TodoLines(D))
        IN /\ insertion_index = last
           /\ file = Join(Spliced(D, last, Normalized(todo_text)))

\* C6 as stated: on every document that is not empty and holds no checklist line,
\* add_todo inserts the normalized item at (index of the first header + 2), or at
\* the end when that exceeds the length, and at the end when there is no header.
C6_InsertAfterFirstHeader ==
    (AddReturned /\ ~IsEmptyFile(before) /\ TodoLines(SplitLines(before)) = {}) =>
        LET D == SplitLines(before)
            at == IF HeaderLines(D) = {} THEN Len(D)
                  ELSE IF Min(HeaderLines(D)) + 1 <= Len(D) THEN Min(HeaderLines(D)) + 1
                  ELSE Len(D)
        IN /\ insertion_index = at
           /\ file = Join(Spliced(D, at, Normalized(todo_text)))

\* the line sequence D with one line changed, joined, is the text
OneLineChanged(D, text) ==
    \E i \in 1..Len(D) :
        /\ PendingAt(D[i]) # {}
        /\ text = Join([D EXCEPT ![i] = Flipped(D[i])])

\* the line sequence D with the line item spliced in somewhere, joined, is the text
OneLineSpliced(D, item, text) == \E k \in 0..Len(D) : text = Join(Spliced(D, k, item))

\* C9 as stated: for every document, the empty and the whitespace-only ones
\* included, mark_todo_done changes one line in place and add_todo splices one new
\* line into the line sequence: one line more, and the original sequence once the
\* inserted line is deleted.
C9_SpliceEveryDocument ==
    /\ MarkReturned => OneLineChanged(SplitLines(before), file)
    /\ AddReturned => OneLineSpliced(SplitLines(before), Normalized(todo_text), file)

\* C9 amended: mark_todo_done changes one line in place. add_todo writes the
\* "\n"-join of the document's line sequence with one new line, the normalized
\* item, spliced in and no other line altered, moved or dropped, for every document
\* that is not empty and for the whitespace-only ones that end with a line
\* terminator. On the zero-length document it writes an empty line and the item
\* (two lines from none); on a whitespace-only document that does not end with a
\* line terminator it appends the item to the last line (no line more).
C9_SpliceUnlessEmpty ==
    /\ MarkReturned => OneLineChanged(SplitLines(before), file)
    /\ AddReturned =>
           LET D == SplitLines(before)
               item == Normalized(todo_text)
           IN IF before = <<>> THEN file = Join(<<<<>>, item>>)
              ELSE IF IsEmptyFile(before) /\ before[Len(before)] \notin LineBreaks
                   THEN /\ file = Join([D EXCEPT ![Len(D)] = D[Len(D)] \o item])
                        /\ ~OneLineSpliced(D, item, file)
                   ELSE /\ OneLineSpliced(D, item, file)
                        /\ ~IsEmptyFile(before) =>
                               file = Join(Spliced(D, insertion_index, item))

\* C9 witness: an item spliced in before the end of a document that is not empty.
C9_Witness ==
    /\ AddReturned
    /\ ~IsEmptyFile(before)
    /\ insertion_index < Len(SplitLines(before))
    /\ insertion_index > 0
    /\ file = Join(Spliced(SplitLines(before), insertion_index, Normalized(todo_text)))

\* C10: a write that fails inside mark_todo_done or add_todo ends the call with an
\* McpError (COMMAND_ERROR) and no TodoNote; a call attempts at most one write, and
\* a returned TodoNote holds what the file now holds.
C10_FailedWriteRaises ==
    /\ writes <= 1
    /\ write_error =>
           /\ writes = 1
           /\ outcome = "McpError" /\ error_code = COMMAND_ERROR
           /\ returned = <<>>
    /\ outcome = "TodoNote" => (~write_error /\ writes = 1 /\ file = returned)

\* C10 witness: the write of a found todo fails after the file was opened.
C10_Witness ==
    /\ op = "mark_todo_done"
    /\ write_error
    /\ outcome = "McpError"
    /\ Candidates(SplitLines(before), todo_text) # {}
    /\ file # before

\* C11 as stated: two failures of different kinds never carry the same error code
\* (the five kinds have pairwise different codes).
C11_KindsHaveOwnCodes ==
    (TwoFailures /\ KindOf(failure) # KindOf(previous.failure))
        => error_code # previous.error_code

\* C11 amended: two failures of different kinds raised by the same operation never
\* carry the same code; across operations the code is shared by NoteNotFound and
\* TodoNotFound (NOT_FOUND) and by ExternalCommandFailed, when the command could
\* not be run, and FileWriteFailed (COMMAND_ERROR), and by no other two kinds; a
\* command that exits with another status than 0 carries COMMAND_FAILED.
C11_KindsByOperation ==
    /\ outcome = "McpError" =>
           /\ error_code \in CodesOf(KindOf(failure))
           /\ (failure = "command_failed") <=> (error_code = COMMAND_FAILED)
    /\ (TwoFailures /\ KindOf(failure) # KindOf(previous.failure)) =>
           /\ op = previous.op => error_code # previous.error_code
           /\ error_code = previous.error_code =>
                  {KindOf(failure), KindOf(previous.failure)} \in SharedCode

\* C11 witness: a note that was not found, then a todo that was not found: two
\* kinds, one code.
C11_Witness ==
    /\ TwoFailures
    /\ previous.op = "get_todo_contents"
    /\ previous.failure = "no_note"
    /\ op = "mark_todo_done"
    /\ failure = "no_todo"
    /\ error_code = previous.error_code

\* C12: what get_pending_todos returns has one entry {file, todo} for every line
\* that holds "[ ]" anywhere in every listed file, and no other entry; todo is the
\* trimmed line; entries are in file order, then in line order within the file.
\* Lines with "[x]" only give no entry, an empty list of files gives no entry.
C12_PendingEntries ==
    PendingReturned =>
        /\ \A f \in 1..Len(ListedFiles) : ListedFiles[f] \in NotePaths
        /\ Len(todos) = Cardinality(PendingPlaces)
        /\ \A p \in PendingPlaces :
               LET rank == Cardinality({q \in PendingPlaces : PlaceBefore(q, p)}) + 1
               IN todos[rank] =
                      [file |-> ListedFiles[p[1]], todo |-> Strip(ListedLines(p[1])[p[2]])]

\* C12 witness: two files listed, the second note first; a done line is passed
\* over, an indented line is trimmed, a line without bullet is an entry.
C12_Witness ==
    /\ PendingReturned
    /\ listing = <<OTHER_NOTE, NOTE>>
    /\ other = LINE_DONE \o <<NL>> \o LINE_INDENTED
    /\ file = LINE_TWO_BOXES \o <<NL>> \o LINE_DONE
    /\ todos = <<[file |-> OTHER_NOTE, todo |-> LINE_PENDING],
                 [file |-> NOTE, todo |-> LINE_TWO_BOXES]>>

\* the two edits went read, read, write, write: first is the edit that wrote first
Overlapped(first, second) ==
    /\ first # second
    /\ Len(schedule) = 4
    /\ {schedule[1], schedule[2]} = {<<first, "read">>, <<second, "read">>}
    /\ schedule[3] = <<first, "write">>
    /\ schedule[4] = <<second, "write">>

\* the edit would succeed on the original content when served alone
Applicable(e) ==
    e.op = "add_todo" \/ Candidates(SplitLines(original), e.todo_text) # {}

\* C13: when two edits interleave as read, read, write, write, each of them
\* applicable to the original content, both return (no error is raised), each
\* returns the original content with its own change, and the file ends as the
\* content the second writer returned: the original with the second change only.
C13_SecondWriteWins ==
    \A first \in Writers, second \in Writers :
        (Overlapped(first, second) /\ Applicable(edits[first]) /\ Applicable(edits[second]))
        => /\ edits[first].outcome = "TodoNote"
           /\ edits[second].outcome = "TodoNote"
           /\ edits[first].returned =
                  EditedContent(edits[first].op, edits[first].todo_text, original)
           /\ edits[second].returned =
                  EditedContent(edits[second].op, edits[second].todo_text, original)
           /\ file = edits[second].returned

\* C13 witness: a todo is marked and an item is added, overlapping; the mark
\* returned first and its change is not in the file.
C13_Witness ==
    /\ Overlapped(1, 2)
    /\ edits[1].op = "mark_todo_done"
    /\ edits[1].outcome = "TodoNote"
    /\ edits[2].op = "add_todo"
    /\ edits[2].outcome = "TodoNote"
    /\ original = LINE_PENDING
    /\ edits[1].returned = LINE_DONE
    /\ file = LINE_PENDING \o <<NL>> \o <<"-", " ", "[", " ", "]", " ", "c">>

\* what the scan of add_todo records on the document the request read
Scanned == ScanTodos(SplitLines(before), 0, -1, -1)

\* C14: after the scan of any document, a recorded section header
\* (todo_section_index >= 0) implies a recorded last checklist line
\* (last_todo_index >= 0), so the placement branch "header but no checklist
\* line" is never taken. The recorded last line is the last checklist line of
\* the document; the recorded header is the nearest header at or above the first
\* checklist line that has a header at or above it.
C14_HeaderImpliesTodo ==
    LET D == SplitLines(before)
    IN /\ Scanned.todo_section_index >= 0 => Scanned.last_todo_index >= 0
       /\ Scanned.last_todo_index =
              (IF TodoLines(D) = {} THEN -1 ELSE Max(TodoLines(D)) - 1)
       /\ Scanned.todo_section_index =
              (IF TodoLines(D) = {} THEN -1
               ELSE LET below == {t \in TodoLines(D) : \E h \in HeaderLines(D) : h <= t}
                    IN IF below = {} THEN -1
                       ELSE Max({h \in HeaderLines(D) : h <= Min(below)}) - 1)
       /\ (AddReturned /\ ~IsEmptyFile(before) /\ TodoLines(D) = {}
             /\ insertion_index # Len(D))
            => (IsTestPattern(D) /\ insertion_index = 2)

\* C14 witness: add_todo returned on a document with a header and no checklist
\* line, where the defensive branch would insert before the end; the scan
\* recorded no header and the item went to the end.
C14_Witness ==
    /\ AddReturned
    /\ LET D == SplitLines(before)
       IN /\ Len(D) >= 3
          /\ 1 \in HeaderLines(D)
          /\ TodoLines(D) = {}
          /\ ~IsTestPattern(D)
          /\ Scanned.todo_section_index = -1
          /\ insertion_index = Len(D)

\* C15 as stated: when a header precedes the first checklist line, the line
\* add_todo inserts lies in the section of that header (the nearest header above
\* the first checklist line): it comes after that header and no other header lies
\* between the two.
C15_InsertInOwnerSection ==
    LET D == SplitLines(before)
        above == {h \in HeaderLines(D) : TodoLines(D) # {} /\ h < Min(TodoLines(D))}
    IN (AddReturned /\ ~IsEmptyFile(before) /\ above # {}) =>
           LET owner == Max(above)
           IN /\ insertion_index >= owner
              /\ \A h \in HeaderLines(D) : ~(owner < h /\ h <= insertion_index)

\* an add_todo that returned, made right after an add_todo that returned
AddedTwice == AddReturned /\ previous.op = "add_todo" /\ previous.outcome = "TodoNote"

\* the index (0-based) of the line the first of the two requests inserted: its
\* insertion_index, or the last line when the file was empty
FirstInserted ==
    IF previous.insertion_index >= 0 THEN previous.insertion_index
    ELSE Len(SplitLines(before)) - 1

\* C17 as stated: for every document and every two item texts, the line the
\* second add_todo inserts is the line right after the one the first add_todo
\* inserted.
C17_InsertsKeepCallOrder ==
    AddedTwice =>
        /\ insertion_index = FirstInserted + 1
        /\ SplitLines(file)[FirstInserted + 1] = SplitLines(before)[FirstInserted + 1]
        /\ SplitLines(file)[FirstInserted + 2] = Normalized(todo_text)

\* the entries of the held PendingTodos that belong to the first note
NoteEntries == {k \in 1..Len(todos) : todos[k].file = NOTE}

\* a mark_todo_done of an entry of the PendingTodos returned just before, whose
\* read and write did not fail
PassedBack ==
    /\ op = "mark_todo_done"
    /\ previous.op = "get_pending_todos"
    /\ previous.outcome = "PendingTodos"
    /\ \E k \in NoteEntries : todos[k].todo = todo_text
    /\ failure \notin {"file_read", "file_write"}

\* C16: an entry {file, todo} of get_pending_todos passed back verbatim to
\* mark_todo_done, the file not being changed in between, is found (never
\* NOT_FOUND): the call returns with one line flipped, a line whose trimmed text
\* is that todo.
C16_EntryCanBeMarked ==
    PassedBack =>
        /\ before = previous.before
        /\ MarkReturned
        /\ \E i \in 1..Len(SplitLines(before)) :
               LET D == SplitLines(before)
               IN /\ Strip(D[i]) = todo_text
                  /\ PendingAt(D[i]) # {}
                  /\ file = Join([D EXCEPT ![i] = Flipped(D[i])])

\* C16 witness: the second entry, taken from an indented line, is passed back and
\* that line is flipped.
C16_Witness ==
    /\ PassedBack
    /\ MarkReturned
    /\ before = LINE_TWO_BOXES \o <<NL>> \o LINE_INDENTED
    /\ todo_text = LINE_PENDING
    /\ Len(todos) >= 2
    /\ file = LINE_TWO_BOXES \o <<NL>> \o <<" ">> \o LINE_DONE

\* number of "[ ]" in a text, and of "[x]"
PendingCount(text) == Cardinality(PendingAt(text))

DoneCount(text) ==
    Cardinality({k \in 1..(Len(text) - 2) :
                    text[k] = "[" /\ text[k + 1] = "x" /\ text[k + 2] = "]"})

\* requests served so far while the list is emptied, and the marks among them
Served == DrainCalls - calls_left

Marked == Served \div 2

\* get_pending_todos returned no entry for the first note
Drained == PendingReturned /\ NoteEntries = {}

\* each mark_todo_done that returns takes one "[ ]" from the file and adds one
\* "[x]"; while no request has failed the file holds as many "[ ]" less as marks
\* were made, and the list comes back empty after as many marks as the file had
\* "[ ]" at first
DrainCounts ==
    /\ MarkReturned =>
           /\ PendingCount(file) = PendingCount(before) - 1
           /\ DoneCount(file) = DoneCount(before) + 1
    /\ outcome # "McpError" => PendingCount(file) = PendingCount(original) - Marked
    /\ PendingReturned => (NoteEntries = {} <=> PendingCount(file) = 0)
    /\ Drained => Marked = PendingCount(original)

\* C18: each successful mark_todo_done lowers the number of "[ ]" in the file by
\* one and raises the number of "[x]" by one, and a client that keeps passing
\* any entry of get_pending_todos back, as long as no request fails, reaches a
\* get_pending_todos with no entry for the file after exactly as many marks as
\* the file had "[ ]" at first.
C18_DrainTerminates == [](DrainCounts) /\ <>(Drained \/ outcome = "McpError")

\* C18 witness: a note with three "[ ]", two of them in one line, emptied by
\* three marks.
C18_Witness ==
    /\ Drained
    /\ original = LINE_TWO_BOXES \o <<NL>> \o LINE_INDENTED
    /\ Marked = 3
    /\ PendingCount(file) = 0
    /\ DoneCount(file) = 3

====
